---- MODULE Spec2Model ----
(***************************************************************************)
(* A model of snapdragon-util (src/index.js, the compiled build that      *)
(* starts at line 440): the tree mutators, the bracket wrappers, the     *)
(* visitor and the nesting tracker.                                       *)
(*                                                                         *)
(* Nodes are the integers 1..NumNodes + NumFresh.  A node type is a       *)
(* string of dot-separated segments and is kept as the sequence of its    *)
(* segments: "brace.open" is <<"brace", "open">>, so that                 *)
(* node.type + '.open' and type.replace(/\.open$/, '') are computed, not  *)
(* assumed.  null is 0, an absent node.nodes is the marker NoNodes.       *)
(***************************************************************************)
EXTENDS Integers, Sequences, FiniteSets

\* ------------------------------------------------------------------ bounds
NumNodes == 3       \* nodes that exist before the first call
NumFresh == 2       \* nodes the Node constructor may still create
MaxSteps == 3       \* calls in one run

\* ------------------------------------------------------------------ values
Null == 0                       \* null
Undefined == "<undefined>"      \* the value undefined, where a string is expected
NoNodes == <<0>>                \* node.nodes === undefined
BadNodes == <<-1>>              \* node.nodes holding an object that is not an array
NotANode == -1                  \* an argument that is not a node: {} or undefined
Void == -2                      \* the value undefined, where a node is expected
NodeIds == 1..(NumNodes + NumFresh)

\* The types the nodes of the initial state carry, in turn.
TypeCycle == << <<"brace">>, <<"brace", "open">>, <<"brace", "close">>, <<"text">> >>
InitType(n) == TypeCycle[((n - 1) % Len(TypeCycle)) + 1]
InitValue(n) == IF n % 2 = 0 THEN "" ELSE "foo"

VARIABLES
    type,       \* node.type, a sequence of segments
    value,      \* node.value
    nodes,      \* node.nodes: NoNodes or the sequence of children
    parent,     \* node.parent: Null or a node
    alloc,      \* the nodes constructed so far
    hasInside,  \* state.hasOwnProperty('inside')
    inside,     \* state.inside: type -> stack of nodes, over the keys it owns
    steps,      \* calls made so far
    last,       \* the last call: its name, arguments, result and what it read
    hist,       \* the last call when it was a tracker call, with state.inside before it
    tally,      \* per key, the nodes pushed on and popped off its stack so far
    run,        \* the push-then-pop run: its parent, the pushes and the results of the pops
    caps,       \* the nodes decorated with the methods push, unshift, pop, shift, remove
    trace,      \* node.nodes and node.parent before the last call, and the methods it called
    visit       \* the traversal under way: its call stack and the visitor's invocations

vars ==
    <<type, value, nodes, parent, alloc, hasInside, inside, steps, last, hist, tally, run,
      caps, trace, visit>>

\* ------------------------------------------------------------ JS primitives
\* parent.nodes || []
OrEmpty(arr) == IF arr = NoNodes THEN <<>> ELSE arr

ArrayPushFront(arr, x) == <<x>> \o arr
\* arr.push(x): the array after the call
ArrayPush(arr, x) == Append(arr, x)

ArrayUnshiftBack(arr, x) == Append(arr, x)
\* arr.unshift(x): the array after the call
ArrayUnshift(arr, x) == <<x>> \o arr

\* arr.indexOf(x): the first index (from 1) holding x, 0 for -1
IndexOfLast(arr, x) ==
    IF \E i \in 1..Len(arr) : arr[i] = x
    THEN CHOOSE i \in 1..Len(arr) : arr[i] = x /\ \A j \in (i + 1)..Len(arr) : arr[j] # x
    ELSE 0
IndexOf(arr, x) ==
    IF \E i \in 1..Len(arr) : arr[i] = x
    THEN CHOOSE i \in 1..Len(arr) : arr[i] = x /\ \A j \in 1..(i - 1) : arr[j] # x
    ELSE 0

\* arr.splice(idx, 1): the array after the call
Splice1(arr, idx) == [i \in 1..(Len(arr) - 1) |-> IF i < idx THEN arr[i] ELSE arr[i + 1]]

\* ------------------------------------------------------------ the tree
\* The tree as one value, so that an operation that calls others composes.
Tree ==
    [type |-> type, value |-> value, nodes |-> nodes, parent |-> parent,
     alloc |-> alloc, caps |-> caps]

\* isNode(x): the nodes are the values constructed by Node
isNode(t, x) == x \in t.alloc

\* What a call gives back: the tree after it, its result, the error it raised
\* and the methods of the node it called.
Done(t, ret) == [t |-> t, ret |-> ret, err |-> "", calls |-> <<>>]
Thrown(t, e) == [t |-> t, ret |-> Null, err |-> e, calls |-> <<>>]
Links(t) == [nodes |-> t.nodes, parent |-> t.parent]

\* node.define('parent', parent)
define(t, node, p) == [t EXCEPT !.parent[node] = p]

\* The methods a decorated node carries.
\* this.push(node)
methodPush(t, this, node) ==
    LET t1 == define(t, node, this)
        arr == ArrayPush(OrEmpty(t1.nodes[this]), node)
    IN  IF t1.nodes[this] = BadNodes THEN Thrown(t1, "TypeError")
        ELSE Done([t1 EXCEPT !.nodes[this] = arr], Len(arr))
\* this.unshift(node)
methodUnshift(t, this, node) ==
    LET t1 == define(t, node, this)
        arr == ArrayUnshift(OrEmpty(t1.nodes[this]), node)
    IN  IF t1.nodes[this] = BadNodes THEN Thrown(t1, "TypeError")
        ELSE Done([t1 EXCEPT !.nodes[this] = arr], Len(arr))
\* this.pop(): this.nodes && this.nodes.pop()
methodPop(t, this) ==
    LET arr == t.nodes[this]
    IN  IF arr = BadNodes THEN Thrown(t, "TypeError")
        ELSE IF arr = NoNodes \/ arr = <<>> THEN Done(t, Void)
        ELSE Done([t EXCEPT !.nodes[this] = SubSeq(arr, 1, Len(arr) - 1)], arr[Len(arr)])
\* this.shift(): this.nodes && this.nodes.shift()
methodShift(t, this) ==
    LET arr == t.nodes[this]
    IN  IF arr = BadNodes THEN Thrown(t, "TypeError")
        ELSE IF arr = NoNodes \/ arr = <<>> THEN Done(t, Void)
        ELSE Done([t EXCEPT !.nodes[this] = Tail(arr)], Head(arr))
\* this.remove(node): node.index is undefined on these nodes, so that
\* this.nodes.splice(undefined, 1) takes the first child out; the result is
\* the array of what was taken out
methodRemove(t, this, node) ==
    LET arr == OrEmpty(t.nodes[this])
    IN  IF arr = <<>> THEN Done([t EXCEPT !.nodes[this] = <<>>], <<>>)
        ELSE Done([t EXCEPT !.nodes[this] = Tail(arr)], <<Head(arr)>>)
method(m, t, this, node) ==
    CASE m = "push" -> methodPush(t, this, node)
      [] m = "unshift" -> methodUnshift(t, this, node)
      [] m = "pop" -> methodPop(t, this)
      [] m = "shift" -> methodShift(t, this)
      [] m = "remove" -> methodRemove(t, this, node)

DelegateOrNull(m, t, this, node) ==
    LET r == method(m, t, this, node)
    IN  [r EXCEPT !.ret = IF m \in {"pop", "shift"} /\ @ = Void THEN Null ELSE @,
                  !.calls = << [m |-> m, this |-> this, arg |-> node, ret |-> r.ret,
                                before |-> Links(t), after |-> Links(r.t)] >>]
\* return this[m](node): one call of the method, whose result is the result
Delegate(m, t, this, node) ==
    LET r == method(m, t, this, node)
    IN  [r EXCEPT !.calls = << [m |-> m, this |-> this, arg |-> node, ret |-> r.ret,
                                before |-> Links(t), after |-> Links(r.t)] >>]

\* pushNode(parent, node)
pushNode(t, p, node) ==
    IF ~isNode(t, p) \/ ~isNode(t, node) THEN Thrown(t, "TypeError")
    ELSE IF p \in t.caps THEN Delegate("push", t, p, node)
    ELSE LET t1 == define(t, node, p)
             arr == ArrayPush(OrEmpty(t1.nodes[p]), node)
         IN  IF t1.nodes[p] = BadNodes THEN Thrown(t1, "TypeError")
             ELSE Done([t1 EXCEPT !.nodes[p] = arr], Len(arr))

\* unshiftNode(parent, node)
unshiftNode(t, p, node) ==
    IF ~isNode(t, p) \/ ~isNode(t, node) THEN Thrown(t, "TypeError")
    ELSE IF p \in t.caps THEN Delegate("unshift", t, p, node)
    ELSE LET t1 == define(t, node, p)
             arr == ArrayUnshift(OrEmpty(t1.nodes[p]), node)
         IN  IF t1.nodes[p] = BadNodes THEN Thrown(t1, "TypeError")
             ELSE Done([t1 EXCEPT !.nodes[p] = arr], Len(arr))

popNodeFromFront(t, node) ==
    IF ~isNode(t, node) THEN Thrown(t, "TypeError")
    ELSE LET arr == t.nodes[node]
         IN  IF arr = NoNodes \/ arr = <<>>
             THEN Done(t, Null)
             ELSE Done([t EXCEPT !.nodes[node] = Tail(arr)], Head(arr))
popNodeClearingParent(t, node) ==
    IF ~isNode(t, node) THEN Thrown(t, "TypeError")
    ELSE LET arr == t.nodes[node]
         IN  IF arr = NoNodes \/ arr = <<>>
             THEN Done(t, Null)
             ELSE Done([t EXCEPT !.nodes[node] = SubSeq(arr, 1, Len(arr) - 1),
                                 !.parent[arr[Len(arr)]] = Null],
                       arr[Len(arr)])
\* popNode(node); without a pop method:
\* (node.nodes && node.nodes.pop()) || null
popNode(t, node) ==
    IF ~isNode(t, node) THEN Thrown(t, "TypeError")
    ELSE IF node \in t.caps THEN Delegate("pop", t, node, Null)
    ELSE LET arr == t.nodes[node]
         IN  IF arr = BadNodes THEN Thrown(t, "TypeError")
             ELSE IF arr = NoNodes \/ arr = <<>>
             THEN Done(t, Null)
             ELSE Done([t EXCEPT !.nodes[node] = SubSeq(arr, 1, Len(arr) - 1)],
                       arr[Len(arr)])

\* shiftNode(node); without a shift method:
\* (node.nodes && node.nodes.shift()) || null
shiftNode(t, node) ==
    IF ~isNode(t, node) THEN Thrown(t, "TypeError")
    ELSE IF node \in t.caps THEN Delegate("shift", t, node, Null)
    ELSE LET arr == t.nodes[node]
         IN  IF arr = BadNodes THEN Thrown(t, "TypeError")
             ELSE IF arr = NoNodes \/ arr = <<>>
             THEN Done(t, Null)
             ELSE Done([t EXCEPT !.nodes[node] = Tail(arr)], Head(arr))

removeNodeSpliceLast(t, p, node) ==
    IF t.nodes[p] # NoNodes /\ t.nodes[p] # <<>>
    THEN LET idx == IF IndexOf(t.nodes[p], node) # 0
                    THEN IndexOf(t.nodes[p], node) ELSE Len(t.nodes[p])
         IN  Done([t EXCEPT !.nodes[p] = Splice1(t.nodes[p], idx)], t.nodes[p][idx])
    ELSE Done(t, Null)
removeNodeLateCheck(t, p, node) ==
    IF ~isNode(t, p) THEN Thrown(t, "TypeError")
    ELSE IF t.nodes[p] = BadNodes THEN Thrown(t, "TypeError")
    ELSE IF ~isNode(t, node)
    THEN Thrown([t EXCEPT !.nodes[p] = IF @ = NoNodes THEN @ ELSE <<>>], "TypeError")
    ELSE IF p \in t.caps THEN Delegate("remove", t, p, node)
    ELSE IF t.nodes[p] # NoNodes
    THEN LET idx == IndexOf(t.nodes[p], node)
         IN  IF idx # 0
             THEN Done([t EXCEPT !.nodes[p] = Splice1(t.nodes[p], idx)], t.nodes[p][idx])
             ELSE Done(t, Null)
    ELSE Done(t, Null)
\* removeNode(parent, node)
removeNode(t, p, node) ==
    IF ~isNode(t, p) \/ ~isNode(t, node) THEN Thrown(t, "TypeError")
    ELSE IF t.nodes[p] = BadNodes THEN Thrown(t, "TypeError")
    ELSE IF p \in t.caps THEN Delegate("remove", t, p, node)
    ELSE IF t.nodes[p] # NoNodes
    THEN LET idx == IndexOf(t.nodes[p], node)
         IN  IF idx # 0
             THEN Done([t EXCEPT !.nodes[p] = Splice1(t.nodes[p], idx)], t.nodes[p][idx])
             ELSE Done(t, Null)
    ELSE Done(t, Null)


\* ------------------------------------------------------------ strings
\* node.type + '.open', node.type + '.close'
Concat(ty, seg) == Append(ty, seg)

\* ty.replace(/\.open$/, ''), ty.replace(/\.close$/, ''): the last segment goes
\* when it is seg and a dot stands before it
StripSuffix(ty, seg) ==
    IF Len(ty) >= 2 /\ ty[Len(ty)] = seg THEN SubSeq(ty, 1, Len(ty) - 1) ELSE ty

\* ------------------------------------------------------------ bracket wrappers
\* The filter functions a caller passes: one that refuses every node, one that
\* accepts a node only while it has no node.nodes.
FilterFns == {"fn:false", "fn:leaf"}
isFunction(x) == x \in FilterFns
\* filter(node)
ApplyFilter(f, t, node) ==
    CASE f = "fn:false" -> FALSE
      [] f = "fn:leaf" -> t.nodes[node] = NoNodes

\* new Node({ type: ty, value: val }): the next node that does not exist yet
FreshNode(t) == CHOOSE n \in NodeIds \ t.alloc : \A m \in NodeIds \ t.alloc : n <= m
NewNode(t, ty, val) ==
    LET n == FreshNode(t)
    IN  [t |-> [t EXCEPT !.alloc = @ \cup {n}, !.type[n] = ty, !.value[n] = val,
                         !.nodes[n] = NoNodes, !.parent[n] = Null],
         node |-> n]

addOpenUnfiltered(t, node, valueArg, filterArg) ==
    LET val == IF isFunction(valueArg) THEN "" ELSE valueArg
        made == NewNode(t, Concat(t.type[node], "open"), val)
        r == unshiftNode(made.t, node, made.node)
    IN  [r EXCEPT !.ret = IF r.err = "" THEN made.node ELSE Null]
\* addOpen(node, Node, value, filter)
addOpen(t, node, valueArg, filterArg) ==
    LET filter == IF isFunction(valueArg) THEN valueArg ELSE filterArg
        val == IF isFunction(valueArg) THEN "" ELSE valueArg
    IN  IF isFunction(filter) /\ ~ApplyFilter(filter, t, node)
        THEN Done(t, Void)
        ELSE LET made == NewNode(t, Concat(t.type[node], "open"), val)
                 r == unshiftNode(made.t, node, made.node)
             IN  [r EXCEPT !.ret = IF r.err = "" THEN made.node ELSE Null]

addCloseAtFront(t, node, valueArg, filterArg) ==
    LET filter == IF isFunction(valueArg) THEN valueArg ELSE filterArg
        val == IF isFunction(valueArg) THEN "" ELSE valueArg
    IN  IF isFunction(filter) /\ ~ApplyFilter(filter, t, node)
        THEN Done(t, Void)
        ELSE LET made == NewNode(t, Concat(t.type[node], "close"), val)
                 r == unshiftNode(made.t, node, made.node)
             IN  [r EXCEPT !.ret = IF r.err = "" THEN made.node ELSE Null]
\* addClose(node, Node, value, filter)
addClose(t, node, valueArg, filterArg) ==
    LET filter == IF isFunction(valueArg) THEN valueArg ELSE filterArg
        val == IF isFunction(valueArg) THEN "" ELSE valueArg
    IN  IF isFunction(filter) /\ ~ApplyFilter(filter, t, node)
        THEN Done(t, Void)
        ELSE LET made == NewNode(t, Concat(t.type[node], "close"), val)
                 r == pushNode(made.t, node, made.node)
             IN  [r EXCEPT !.ret = IF r.err = "" THEN made.node ELSE Null]

\* wrapNodes(node, Node, filter)
wrapNodes(t, node, filter) ==
    LET opened == addOpen(t, node, filter, Undefined)
        closed == addClose(opened.t, node, filter, Undefined)
    IN  IF opened.err # "" THEN opened
        ELSE IF closed.err # "" THEN [closed EXCEPT !.calls = opened.calls \o @]
        ELSE [closed EXCEPT !.ret = node, !.calls = opened.calls \o @]


\* ------------------------------------------------------------ the visitor
\* A traversal is the call stack of the mapVisit loops under way, each with
\* its node and the index i of the child it takes next, and the nodes fn has
\* been invoked on, in order.

\* No traversal is under way.
NoVisit ==
    [status |-> "idle", api |-> "", root |-> Null, stack |-> <<>>, log |-> <<>>,
     ret |-> Null, err |-> ""]

\* fn(node), for a visitor that records the node and changes nothing
fn(v, node) == [v EXCEPT !.log = Append(@, node)]

\* A call gives val back: to the caller of the traversal when no loop is
\* under way, else to the loop on top, which drops it.
Returning(v, val) ==
    IF v.stack = <<>> THEN [v EXCEPT !.status = "returned", !.ret = val] ELSE v

\* An error leaves through every loop under way.
Throwing(v, e) == [v EXCEPT !.status = "raised", !.err = e, !.stack = <<>>]

\* The calls nest as deep as the structure is; the engine gives the call
\* stack room for StackLimit loops, more than any structure without a cycle
\* needs, and refuses the next call with a RangeError.
StackLimit == NumNodes + NumFresh
ExhaustedHangs(v) ==
    [v EXCEPT !.stack[Len(v.stack)].i = @ - 1, !.log = SubSeq(@, 1, Len(@) - 1)]
Exhausted(v) == Throwing(v, "RangeError")

ChildFromEnd(arr, i) == arr[Len(arr) + 1 - i]
\* for (const child of node.nodes): the child the loop takes at its i-th turn
ChildAt(arr, i) == arr[i]

mapVisitReturnsAtOnce(v, t, node) == Returning(v, node)
\* mapVisit(node, fn), up to its loop
mapVisit(v, t, node) ==
    IF ~isNode(t, node) THEN Throwing(v, "TypeError")
    ELSE IF t.nodes[node] = NoNodes THEN Returning(v, node)
    ELSE IF t.nodes[node] = BadNodes THEN Throwing(v, "TypeError")
    ELSE IF Len(v.stack) >= StackLimit THEN Exhausted(v)
    ELSE [v EXCEPT !.stack = Append(@, [node |-> node, i |-> 1])]

\* visit(node, fn): fn(node); return node.nodes ? mapVisit(node, fn) : node
visitNode(v, t, node) ==
    IF ~isNode(t, node) THEN Throwing(v, "TypeError")
    ELSE LET v1 == fn(v, node)
         IN  IF t.nodes[node] # NoNodes THEN mapVisit(v1, t, node)
             ELSE Returning(v1, node)

\* One turn of the loop on top of the stack: visit(child, fn) for the next
\* child, or the end of the loop and 'return node'.
loopTurn(v, t) ==
    LET d == Len(v.stack)
        top == v.stack[d]
        arr == t.nodes[top.node]
    IN  IF top.i > Len(arr)
        THEN Returning([v EXCEPT !.stack = SubSeq(@, 1, d - 1)], top.node)
        ELSE visitNode([v EXCEPT !.stack[d].i = top.i + 1], t, ChildAt(arr, top.i))

\* The call utils.visit(root, fn) or utils.mapVisit(root, fn), up to its first loop
StartVisit(api, t, root) ==
    LET v == [NoVisit EXCEPT !.status = "running", !.api = api, !.root = root]
    IN  IF api = "visit" THEN visitNode(v, t, root) ELSE mapVisit(v, t, root)

\* ------------------------------------------------------------ nesting tracker
\* The caller's state object, as one value.
State == [has |-> hasInside, inside |-> inside]
EmptyInside == [k \in {} |-> <<>>]

\* state.inside[key] = [] for a key state.inside does not own
WithKey(ins, key) ==
    [k \in DOMAIN ins \cup {key} |-> IF k \in DOMAIN ins THEN ins[k] ELSE <<>>]

addTypeKeyNoStrip(t, node) ==
    IF t.parent[node] # Null THEN t.type[t.parent[node]] ELSE t.type[node]
\* The key addType uses: node.parent.type, else node.type.replace(/\.open$/, '')
addTypeKey(t, node) ==
    IF t.parent[node] # Null
    THEN t.type[t.parent[node]]
    ELSE StripSuffix(t.type[node], "open")

removeTypeKeyOwnType(t, node) == StripSuffix(t.type[node], "open")
\* The key removeType uses: node.parent.type, else node.type.replace(/\.open$/, '')
removeTypeKey(t, node) ==
    IF t.parent[node] # Null
    THEN t.type[t.parent[node]]
    ELSE StripSuffix(t.type[node], "open")

\* addType(state, node)
addType(s, t, node) ==
    LET key == addTypeKey(t, node)
        ins == WithKey(IF s.has THEN s.inside ELSE EmptyInside, key)
        arr == Append(ins[key], node)
    IN  [s |-> [has |-> TRUE, inside |-> [ins EXCEPT ![key] = arr]],
         ret |-> arr, key |-> key]

removeTypeQuiet(s, t, node) ==
    LET key == removeTypeKey(t, node)
        ins == WithKey(IF s.has THEN s.inside ELSE EmptyInside, key)
    IN  IF ins[key] # <<>>
        THEN [s |-> [has |-> TRUE,
                     inside |-> [ins EXCEPT ![key] = SubSeq(@, 1, Len(@) - 1)]],
              ret |-> ins[key][Len(ins[key])], err |-> "", key |-> key, popped |-> TRUE]
        ELSE [s |-> [has |-> TRUE, inside |-> ins],
              ret |-> Null, err |-> "", key |-> key, popped |-> FALSE]
\* removeType(state, node)
removeType(s, t, node) ==
    IF ~s.has
    THEN [s |-> s, ret |-> Null, err |-> "TypeError", key |-> <<>>, popped |-> FALSE]
    ELSE LET key == removeTypeKey(t, node)
         IN  IF key \in DOMAIN s.inside /\ s.inside[key] # <<>>
             THEN LET arr == s.inside[key]
                  IN  [s |-> [s EXCEPT !.inside[key] = SubSeq(arr, 1, Len(arr) - 1)],
                       ret |-> arr[Len(arr)], err |-> "", key |-> key, popped |-> TRUE]
             ELSE [s |-> s, ret |-> Null, err |-> "", key |-> key, popped |-> FALSE]

isInsideTypeOwned(s, ty) == s.has /\ ty \in DOMAIN s.inside
\* isInsideType(state, type)
isInsideType(s, ty) ==
    IF s.has
    THEN IF ty \in DOMAIN s.inside THEN Len(s.inside[ty]) > 0 ELSE FALSE
    ELSE FALSE

\* The matchers isInside accepts: a string, a regular expression, an array
\* of matchers; anything else (null, a number) is kind "other".
StringMatcher(ty) == [kind |-> "string", ty |-> ty, re |-> "", items |-> <<>>]
RegexpMatcher(re) == [kind |-> "regexp", ty |-> <<>>, re |-> re, items |-> <<>>]
ArrayMatcher(items) == [kind |-> "array", ty |-> <<>>, re |-> "", items |-> items]
OtherMatcher == [kind |-> "other", ty |-> <<>>, re |-> "", items |-> <<>>]
StringTypes ==
    { <<"foo">>, <<"bar">>, <<"brace">>, <<"text">>,
      <<"brace", "open">>, <<"brace", "close">> }
Regexps == { "(foo|brace)", "(foo|bar)", "\\.open$", "^brace" }
\* regexp.test(string) for the expressions of Regexps, on a string kept as
\* its dot-separated segments (no segment is a substring of another one)
Test(re, ty) ==
    CASE re = "(foo|brace)" -> \E i \in 1..Len(ty) : ty[i] \in {"foo", "brace"}
      [] re = "(foo|bar)"   -> \E i \in 1..Len(ty) : ty[i] \in {"foo", "bar"}
      [] re = "\\.open$"    -> Len(ty) >= 2 /\ ty[Len(ty)] = "open"
      [] re = "^brace"      -> Len(ty) >= 1 /\ ty[1] = "brace"
      [] OTHER              -> FALSE
Returned(b) == [ret |-> b, err |-> ""]
Raised(e) == [ret |-> FALSE, err |-> e]
isInsideStringNoParent(s, t, node, ty) == Returned(isInsideType(s, ty))
\* isInside, case 'string'
isInsideString(s, t, node, ty) ==
    Returned((t.parent[node] # Null /\ t.type[t.parent[node]] = ty)
             \/ isInsideType(s, ty))
isInsideRegexpAnyKey(s, t, node, re) ==
    LET p == t.parent[node]
    IN  IF p # Null /\ t.type[p] # <<>> /\ Test(re, t.type[p]) THEN Returned(TRUE)
        ELSE IF ~s.has THEN Raised("TypeError")
        ELSE Returned(\E key \in DOMAIN s.inside : Test(re, key))
\* isInside, case 'regexp'
isInsideRegexp(s, t, node, re) ==
    LET p == t.parent[node]
    IN  IF p # Null /\ t.type[p] # <<>> /\ Test(re, t.type[p]) THEN Returned(TRUE)
        ELSE IF ~s.has THEN Raised("TypeError")
        ELSE Returned(\E key \in DOMAIN s.inside :
                          s.inside[key] # <<>> /\ Test(re, key))
RECURSIVE isInside(_, _, _, _)
RECURSIVE isInsideArray(_, _, _, _, _)
\* isInside, case 'array': the loop over the members from index i on
isInsideArray(s, t, node, items, i) ==
    IF i > Len(items) THEN Returned(FALSE)
    ELSE LET r == isInside(s, t, node, items[i])
         IN  IF r.err # "" THEN r
             ELSE IF r.ret THEN Returned(TRUE)
             ELSE isInsideArray(s, t, node, items, i + 1)
\* isInside(state, node, type)
isInside(s, t, node, m) ==
    CASE m.kind = "string" -> isInsideString(s, t, node, m.ty)
      [] m.kind = "regexp" -> isInsideRegexp(s, t, node, m.re)
      [] m.kind = "array"  -> isInsideArray(s, t, node, m.items, 1)
      [] OTHER             -> Raised("TypeError")


\* ------------------------------------------------------------ the calls
SetTree(t) ==
    /\ type' = t.type
    /\ value' = t.value
    /\ nodes' = t.nodes
    /\ parent' = t.parent
    /\ alloc' = t.alloc

SetState(s) ==
    /\ hasInside' = s.has
    /\ inside' = s.inside

NoHist == [op |-> "none", n |-> Null, has |-> FALSE, inside |-> EmptyInside, stack |-> <<>>]
NoRun == [parent |-> Null, pushed |-> <<>>, popped |-> <<>>]
NoTrace == [pre |-> [nodes |-> <<>>, parent |-> <<>>], calls |-> <<>>]

\* What a call leaves behind for the properties: op, the arguments p and n,
\* the result, the error raised, p's children before the call (preNodes), the
\* parent, before the call, of the node the call returned (preParent), and the
\* tracker call made right before it (prev).
Call(op, p, n, ret, err, removed, prev) ==
    [op |-> op, p |-> p, n |-> n, ret |-> ret, err |-> err,
     preNodes |-> IF p \in NodeIds THEN nodes[p] ELSE NoNodes,
     preParent |-> IF removed = Null THEN Null ELSE parent[removed],
     prev |-> prev]

Step == steps < MaxSteps /\ steps' = steps + 1

\* A tree call: the tracker's state stays, and it ends any run of tracker calls.
TreeCall(op, p, n, r, removed) ==
    /\ SetTree(r.t)
    /\ last' = Call(op, p, n, r.ret, r.err, removed, NoHist)
    /\ hist' = NoHist
    /\ UNCHANGED <<hasInside, inside, tally, run, caps, trace, visit>>

PushNode(p, n) ==
    /\ Step
    /\ TreeCall("pushNode", p, n, pushNode(Tree, p, n), Null)

UnshiftNode(p, n) ==
    /\ Step
    /\ TreeCall("unshiftNode", p, n, unshiftNode(Tree, p, n), Null)

PopNode(p) ==
    /\ Step
    /\ LET r == popNode(Tree, p) IN TreeCall("popNode", p, Null, r, r.ret)

ShiftNode(p) ==
    /\ Step
    /\ LET r == shiftNode(Tree, p) IN TreeCall("shiftNode", p, Null, r, r.ret)

RemoveNode(p, n) ==
    /\ Step
    /\ LET r == removeNode(Tree, p, n) IN TreeCall("removeNode", p, n, r, r.ret)

\* The Node constructor can still create k nodes.
CanCreate(k) == Cardinality(NodeIds \ alloc) >= k

AddOpen(n) ==
    /\ Step /\ CanCreate(1)
    /\ TreeCall("addOpen", n, Null, addOpen(Tree, n, Undefined, Undefined), Null)

AddClose(n) ==
    /\ Step /\ CanCreate(1)
    /\ TreeCall("addClose", n, Null, addClose(Tree, n, Undefined, Undefined), Null)

WrapNodes(n) ==
    /\ Step /\ CanCreate(2)
    /\ TreeCall("wrapNodes", n, Null, wrapNodes(Tree, n, Undefined), Null)

Count(f, key) == IF key \in DOMAIN f THEN f[key] ELSE 0
Bump(f, key) == [k \in DOMAIN f \cup {key} |-> Count(f, k) + (IF k = key THEN 1 ELSE 0)]

AddType(n) ==
    /\ Step
    /\ LET r == addType(State, Tree, n)
       IN  /\ SetState(r.s)
           /\ last' = Call("addType", Null, n, Len(r.ret), "", Null, hist)
           /\ tally' = [tally EXCEPT !.pushed = Bump(@, r.key)]
    /\ hist' = [op |-> "addType", n |-> n, has |-> hasInside, inside |-> inside,
                stack |-> addType(State, Tree, n).ret]
    /\ UNCHANGED <<type, value, nodes, parent, alloc, run, caps, trace, visit>>

RemoveType(n) ==
    /\ Step
    /\ LET r == removeType(State, Tree, n)
       IN  /\ SetState(r.s)
           /\ last' = Call("removeType", Null, n, r.ret, r.err, Null, hist)
           /\ tally' = IF r.popped THEN [tally EXCEPT !.popped = Bump(@, r.key)] ELSE tally
    /\ hist' = [op |-> "removeType", n |-> n, has |-> hasInside, inside |-> inside,
                stack |-> <<>>]
    /\ UNCHANGED <<type, value, nodes, parent, alloc, run, caps, trace, visit>>

\* The push-then-pop run on run.parent: pushNode of nodes not pushed before,
\* then popNode, once more than there were pushes.
RunPush(n) ==
    /\ run.popped = <<>>
    /\ \A i \in 1..Len(run.pushed) : run.pushed[i] # n
    /\ LET r == pushNode(Tree, run.parent, n)
       IN  /\ SetTree(r.t)
           /\ last' = Call("pushNode", run.parent, n, r.ret, "", Null, NoHist)
    /\ run' = [run EXCEPT !.pushed = Append(@, n)]
    /\ UNCHANGED <<hasInside, inside, tally, hist, steps, caps, trace, visit>>

RunPop ==
    /\ run.pushed # <<>>
    /\ Len(run.popped) <= Len(run.pushed)
    /\ LET r == popNode(Tree, run.parent)
       IN  /\ SetTree(r.t)
           /\ last' = Call("popNode", run.parent, Null, r.ret, "", r.ret, NoHist)
           /\ run' = [run EXCEPT !.popped = Append(@, r.ret)]
    /\ UNCHANGED <<hasInside, inside, tally, hist, steps, caps, trace, visit>>

InitTree ==
    /\ type = [n \in NodeIds |-> IF n <= NumNodes THEN InitType(n) ELSE <<>>]
    /\ value = [n \in NodeIds |-> IF n <= NumNodes THEN InitValue(n) ELSE Undefined]
    /\ parent = [n \in NodeIds |-> Null]
    /\ alloc = 1..NumNodes
    /\ steps = 0
    /\ last = [op |-> "none", p |-> Null, n |-> Null, ret |-> Null, err |-> "",
               preNodes |-> NoNodes, preParent |-> Null, prev |-> NoHist]
    /\ hist = NoHist
    /\ inside = EmptyInside
    /\ tally = [pushed |-> EmptyInside, popped |-> EmptyInside]
    /\ trace = NoTrace
    /\ visit = NoVisit

\* The tree calls, on nodes that were just constructed; the state is {}.
Init ==
    /\ InitTree
    /\ caps = {}
    /\ nodes = [n \in NodeIds |-> NoNodes]
    /\ hasInside = FALSE
    /\ run = NoRun

Next ==
    \/ \E p \in alloc, n \in alloc : PushNode(p, n)
    \/ \E p \in alloc, n \in alloc : UnshiftNode(p, n)
    \/ \E p \in alloc : PopNode(p)
    \/ \E p \in alloc : ShiftNode(p)
    \/ \E p \in alloc, n \in alloc : RemoveNode(p, n)
    \/ \E n \in alloc : AddOpen(n)
    \/ \E n \in alloc : AddClose(n)
    \/ \E n \in alloc : WrapNodes(n)

Spec == Init /\ [][Next]_vars

\* The tracker calls, between calls of pushNode that give nodes a parent; the
\* state is {} or { inside: {} }.
InitNest ==
    /\ InitTree
    /\ caps = {}
    /\ nodes = [n \in NodeIds |-> NoNodes]
    /\ hasInside \in BOOLEAN
    /\ run = NoRun

NextNest ==
    \/ \E n \in alloc : AddType(n)
    \/ \E n \in alloc : RemoveType(n)
    \/ \E p \in alloc, n \in alloc : PushNode(p, n)

SpecNest == InitNest /\ [][NextNest]_vars

\* The push-then-pop run, from a parent with no children: no node.nodes, or [].
InitRun ==
    /\ InitTree
    /\ caps = {}
    /\ hasInside = FALSE
    /\ \E p \in 1..NumNodes, arr \in {NoNodes, <<>>} :
          /\ nodes = [n \in NodeIds |-> IF n = p THEN arr ELSE NoNodes]
          /\ run = [parent |-> p, pushed |-> <<>>, popped |-> <<>>]

NextRun ==
    \/ \E n \in alloc : RunPush(n)
    \/ RunPop

SpecRun == InitRun /\ [][NextRun]_vars

\* The mutators on any arguments, nodes or not.  steps counts the calls that
\* returned; the trace keeps node.nodes and node.parent as they were before.
Args == alloc \cup {NotANode}
Counted(r) == steps < MaxSteps /\ steps' = IF r.err = "" THEN steps + 1 ELSE steps
TracedCall(op, p, n, r) ==
    /\ Counted(r)
    /\ SetTree(r.t)
    /\ last' = Call(op, p, n, r.ret, r.err, Null, NoHist)
    /\ hist' = NoHist
    /\ trace' = [pre |-> Links(Tree), calls |-> r.calls]
    /\ UNCHANGED <<hasInside, inside, tally, run, caps, visit>>

PushNodeAny(p, n) == TracedCall("pushNode", p, n, pushNode(Tree, p, n))
UnshiftNodeAny(p, n) == TracedCall("unshiftNode", p, n, unshiftNode(Tree, p, n))
PopNodeAny(p) == TracedCall("popNode", p, Null, popNode(Tree, p))
ShiftNodeAny(p) == TracedCall("shiftNode", p, Null, shiftNode(Tree, p))
RemoveNodeAny(p, n) == TracedCall("removeNode", p, n, removeNode(Tree, p, n))

\* pushNode builds the tree; every mutator is called with an argument that is
\* not a node.
InitGuard ==
    /\ InitTree
    /\ caps = {}
    /\ nodes = [n \in NodeIds |-> NoNodes]
    /\ hasInside = FALSE
    /\ run = NoRun

NextGuard ==
    \/ \E p \in Args, n \in Args : PushNodeAny(p, n)
    \/ \E p \in Args, n \in Args : (p = NotANode \/ n = NotANode) /\ UnshiftNodeAny(p, n)
    \/ PopNodeAny(NotANode)
    \/ ShiftNodeAny(NotANode)
    \/ \E p \in Args, n \in Args : (p = NotANode \/ n = NotANode) /\ RemoveNodeAny(p, n)

SpecGuard == InitGuard /\ [][NextGuard]_vars

\* The traversals.  pushNode builds the structure, whose last node may carry
\* a node.nodes that is not an array and stays a leaf; then visit or mapVisit is called
\* on a node and runs turn by turn.
Apis == {"visit", "mapVisit"}

VisitCall(api, root) ==
    /\ visit.status = "idle"
    /\ visit' = StartVisit(api, Tree, root)
    /\ last' = Call(api, root, Null, Null, "", Null, NoHist)
    /\ hist' = NoHist
    /\ trace' = [pre |-> Links(Tree), calls |-> <<>>]
    /\ UNCHANGED <<type, value, nodes, parent, alloc, hasInside, inside, steps, tally,
                   run, caps>>

VisitTurn ==
    /\ visit.status = "running"
    /\ visit' = loopTurn(visit, Tree)
    /\ UNCHANGED <<type, value, nodes, parent, alloc, hasInside, inside, steps, last,
                   hist, tally, run, caps, trace>>

InitVisit ==
    /\ InitTree
    /\ caps = {}
    /\ \E b \in {Null, NumNodes} :
          nodes = [n \in NodeIds |-> IF n = b THEN BadNodes ELSE NoNodes]
    /\ hasInside = FALSE
    /\ run = NoRun

NextVisit ==
    \/ \E p \in alloc, n \in alloc :
          visit.status = "idle" /\ nodes[p] # BadNodes /\ PushNodeAny(p, n)
    \/ \E api \in Apis, root \in alloc : VisitCall(api, root)
    \/ VisitTurn

SpecVisit == InitVisit /\ [][NextVisit]_vars
\* A call under way keeps running: the engine takes its next turn.
SpecVisitLive == SpecVisit /\ WF_vars(VisitTurn)

\* The mutators on a decorated node: one of the nodes carries the methods
\* push, unshift, pop, shift and remove, and is the parent (the node, for
\* popNode and shiftNode) of every call.
InitCap ==
    /\ InitTree
    /\ \E c \in 1..NumNodes : caps = {c}
    /\ nodes = [n \in NodeIds |-> NoNodes]
    /\ hasInside = FALSE
    /\ run = NoRun

NextCap ==
    \/ \E p \in caps, n \in alloc : PushNodeAny(p, n)
    \/ \E p \in caps, n \in alloc : UnshiftNodeAny(p, n)
    \/ \E p \in caps : PopNodeAny(p)
    \/ \E p \in caps : ShiftNodeAny(p)
    \/ \E p \in caps, n \in alloc : RemoveNodeAny(p, n)

SpecCap == InitCap /\ [][NextCap]_vars

\* ---------------------------------------------------------- text and noop
Truthy(x) == x # "" /\ x # Undefined
\* value(node): node.value || node.val; no call of this module writes node.val
nodeValue(t, node) == IF Truthy(t.value[node]) THEN t.value[node] ELSE Undefined

RECURSIVE isEmpty(_, _, _, _)
RECURSIVE isEmptyLoop(_, _, _, _, _)
RECURSIVE isEmptyLoopAny(_, _, _, _, _)
isEmptyLoopAny(t, arr, i, f, depth) ==
    IF i > Len(arr) THEN Returned(Len(arr) = 0)
    ELSE LET r == isEmpty(t, arr[i], f, depth + 1)
         IN  IF r.err # "" THEN r
             ELSE IF r.ret THEN Returned(TRUE)
             ELSE isEmptyLoopAny(t, arr, i + 1, f, depth)
\* for (const child of node.nodes) if (!isEmpty(child, fn)) return false;
\* return true
isEmptyLoop(t, arr, i, f, depth) ==
    IF i > Len(arr) THEN Returned(TRUE)
    ELSE LET r == isEmpty(t, arr[i], f, depth + 1)
         IN  IF r.err # "" THEN r
             ELSE IF ~r.ret THEN Returned(FALSE)
             ELSE isEmptyLoop(t, arr, i + 1, f, depth)
\* isEmpty(node, fn), depth calls deep; the engine ends a recursion that
\* does not end by itself with a RangeError
isEmpty(t, node, f, depth) ==
    IF ~isNode(t, node) THEN Raised("TypeError")
    ELSE IF t.nodes[node] = BadNodes THEN Raised("TypeError")
    ELSE IF depth > StackLimit THEN Raised("RangeError")
    ELSE IF t.nodes[node] # NoNodes THEN isEmptyLoop(t, t.nodes[node], 1, f, depth)
    ELSE IF isFunction(f) THEN Returned(ApplyFilter(f, t, node))
    ELSE Returned(~Truthy(nodeValue(t, node)))

\* toNoop(node, nodes)
toNoop(t, node, arr) ==
    IF ~isNode(t, node) THEN Thrown(t, "TypeError")
    ELSE IF arr = BadNodes THEN Thrown(t, "TypeError")
    ELSE IF arr # NoNodes THEN Done([t EXCEPT !.nodes[node] = arr], Void)
    ELSE Done([t EXCEPT !.nodes[node] = NoNodes, !.type[node] = <<"text">>,
                        !.value[node] = ""], Void)

\* The second argument of toNoop: absent, true (the earlier signature) or an
\* empty array.
NoopArgs == {NoNodes, BadNodes, <<>>}

ToNoop(n, arr) ==
    /\ Step
    /\ LET r == toNoop(Tree, n, arr)
       IN  /\ SetTree(r.t)
           /\ last' = Call("toNoop", n, Null, r.ret, r.err, Null, NoHist)
           /\ hist' = NoHist
           /\ trace' = [pre |-> Links(Tree), calls |-> <<>>, arg |-> arr]
           /\ UNCHANGED <<hasInside, inside, tally, run, caps, visit>>

IsEmpty(n, f) ==
    /\ Step
    /\ LET r == isEmpty(Tree, n, f, 1)
       IN  /\ last' = Call("isEmpty", n, Null, r.ret, r.err, Null, NoHist)
           /\ hist' = NoHist
           /\ trace' = [pre |-> Links(Tree), calls |-> <<>>, arg |-> f]
           /\ UNCHANGED <<type, value, nodes, parent, alloc, hasInside, inside,
                          tally, run, caps, visit>>

\* Nodes that were just constructed with a value of 'foo' or '', and at most
\* one of them with no value.
InitText ==
    /\ type = [n \in NodeIds |-> IF n <= NumNodes THEN InitType(n) ELSE <<>>]
    /\ \E z \in 0..NumNodes :
          value = [n \in NodeIds |->
                     IF n > NumNodes \/ n = z THEN Undefined ELSE InitValue(n)]
    /\ parent = [n \in NodeIds |-> Null]
    /\ alloc = 1..NumNodes
    /\ steps = 0
    /\ last = [op |-> "none", p |-> Null, n |-> Null, ret |-> Null, err |-> "",
               preNodes |-> NoNodes, preParent |-> Null, prev |-> NoHist]
    /\ hist = NoHist
    /\ inside = EmptyInside
    /\ tally = [pushed |-> EmptyInside, popped |-> EmptyInside]
    /\ trace = NoTrace
    /\ visit = NoVisit
    /\ caps = {}
    /\ nodes = [n \in NodeIds |-> NoNodes]
    /\ hasInside = FALSE
    /\ run = NoRun

NextText ==
    \/ \E p \in alloc, n \in alloc : PushNode(p, n)
    \/ \E p \in alloc : ShiftNode(p)
    \/ \E n \in alloc : IsEmpty(n, Undefined)

SpecText == InitText /\ [][NextText]_vars

NextNoop ==
    \/ \E p \in alloc, n \in alloc : PushNode(p, n)
    \/ \E n \in alloc, arr \in NoopArgs : ToNoop(n, arr)

SpecNoop == Init /\ [][NextNoop]_vars

\* The bracket wrappers with a payload and a filter.  The payload is absent
\* or a string, and a filter function may stand in its place; the filter is
\* absent or a function.  The calls go on while the constructor can still
\* create the nodes one call may need.
Payloads == {Undefined, "{"}
WrapArgs ==
    {<<v, Undefined>> : v \in Payloads \cup FilterFns}
    \cup {<<"{", f>> : f \in FilterFns} \cup {<<Undefined, "fn:leaf">>}
WrapCall(op, n, v, f, r) ==
    /\ SetTree(r.t)
    /\ last' = Call(op, n, Null, r.ret, r.err, Null, NoHist)
    /\ hist' = NoHist
    /\ trace' = [pre |-> Links(Tree), calls |-> r.calls, alloc |-> alloc,
                 value |-> v, filter |-> f]
    /\ UNCHANGED <<hasInside, inside, tally, run, caps, visit, steps>>

AddOpenWith(n, v, f) ==
    /\ CanCreate(1)
    /\ WrapCall("addOpen", n, v, f, addOpen(Tree, n, v, f))

AddCloseWith(n, v, f) ==
    /\ CanCreate(1)
    /\ WrapCall("addClose", n, v, f, addClose(Tree, n, v, f))

WrapNodesWith(n, f) ==
    /\ CanCreate(2)
    /\ WrapCall("wrapNodes", n, f, Undefined, wrapNodes(Tree, n, f))

InitWrap ==
    /\ InitTree
    /\ caps = {}
    /\ nodes = [n \in NodeIds |-> NoNodes]
    /\ hasInside = FALSE
    /\ run = NoRun

NextWrap ==
    \/ \E n \in 1..NumNodes, a \in WrapArgs : AddOpenWith(n, a[1], a[2])
    \/ \E n \in 1..NumNodes, a \in WrapArgs : AddCloseWith(n, a[1], a[2])
    \/ \E n \in 1..NumNodes, f \in {Undefined} \cup FilterFns : WrapNodesWith(n, f)

SpecWrap == InitWrap /\ [][NextWrap]_vars

\* ------------------------------------------------------------ properties
InArray(arr, x) == arr # NoNodes /\ \E i \in 1..Len(arr) : arr[i] = x
\* The stack of key k in a state, an absent one counting as empty.
StackOf(has, ins, k) == IF has /\ k \in DOMAIN ins THEN ins[k] ELSE <<>>
\* Every key a call can have touched or can touch.
KeyUniverse ==
    DOMAIN inside \cup DOMAIN tally.pushed \cup DOMAIN tally.popped
    \cup {type[n] : n \in alloc}
    \cup {StripSuffix(type[n], "open") : n \in alloc}
    \cup {StripSuffix(type[n], "close") : n \in alloc}

\* C1: after any sequence of tree mutator and bracket wrapper calls, every
\* node C in some node P's children has C.parent = P.
C1_ParentInvariant ==
    \A p \in alloc :
        nodes[p] # NoNodes => \A i \in 1..Len(nodes[p]) : parent[nodes[p][i]] = p

C3_WrapOrder ==
    last.op = "wrapNodes" =>
        LET original == IF last.preNodes = NoNodes THEN <<>> ELSE last.preNodes
            now == nodes[last.p]
        IN  /\ now # NoNodes
            /\ Len(now) = Len(original) + 2
            /\ SubSeq(now, 2, Len(now) - 1) = original
            /\ type[now[1]] = type[last.p] \o <<"open">>
            /\ type[now[Len(now)]] = type[last.p] \o <<"close">>
C3_Witness ==
    /\ last.op = "wrapNodes"
    /\ last.preNodes # NoNodes
    /\ Len(last.preNodes) >= 1

C5_RemoveAbsent ==
    last.op = "removeNode" /\ ~InArray(last.preNodes, last.n) =>
        /\ last.err = ""
        /\ last.ret = Null
        /\ nodes[last.p] = last.preNodes
C5_Witness ==
    /\ last.op = "removeNode"
    /\ last.preNodes # NoNodes
    /\ Len(last.preNodes) >= 1
    /\ ~InArray(last.preNodes, last.n)

\* C6: removeNode(parent, node) with node among the children removes exactly
\* the first occurrence of node, returns node and keeps the other children in
\* order.
C6_RemovePresent ==
    last.op = "removeNode" /\ InArray(last.preNodes, last.n) =>
        \E i \in 1..Len(last.preNodes) :
            /\ last.preNodes[i] = last.n
            /\ \A j \in 1..(i - 1) : last.preNodes[j] # last.n
            /\ nodes[last.p] = SubSeq(last.preNodes, 1, i - 1)
                               \o SubSeq(last.preNodes, i + 1, Len(last.preNodes))
            /\ last.ret = last.n
C6_Witness ==
    /\ last.op = "removeNode"
    /\ last.preNodes # NoNodes
    /\ \E i, j, k \in 1..Len(last.preNodes) :
          /\ i < j /\ j < k
          /\ last.preNodes[i] = last.n
          /\ last.preNodes[j] # last.n
          /\ last.preNodes[k] = last.n

\* C7: removeNode, popNode and shiftNode leave the parent back-reference of
\* the node they remove as it was.
C7_StaleParent ==
    last.op \in {"removeNode", "popNode", "shiftNode"} /\ last.ret # Null =>
        parent[last.ret] = last.preParent
C7_Witness ==
    /\ last.op = "removeNode"
    /\ last.ret # Null
    /\ last.ret # last.p
    /\ parent[last.ret] = last.p
    /\ Len(nodes[last.p]) = 1
    /\ ~InArray(nodes[last.p], last.ret)

\* C8: after any sequence of addType and removeType calls, isInsideType(state,
\* k) is true exactly when the stack under k exists and is not empty, that is
\* when more nodes were pushed under k than popped from it.
C8_InsideType ==
    \A k \in KeyUniverse :
        /\ isInsideType(State, k) <=> StackOf(hasInside, inside, k) # <<>>
        /\ isInsideType(State, k) <=> Count(tally.pushed, k) > Count(tally.popped, k)
C8_Witness ==
    /\ hasInside
    /\ \E k \in DOMAIN inside : inside[k] = <<>> /\ Count(tally.popped, k) >= 1
    /\ \E k \in DOMAIN inside : inside[k] # <<>>

C10_CloseKey ==
    LET a == last.prev.n
        b == last.n
        T == SubSeq(type[b], 1, Len(type[b]) - 1)
        OpenThenClose ==
            /\ last.op = "removeType" /\ last.prev.op = "addType"
            /\ parent[a] = Null /\ parent[b] = Null
            /\ Len(type[b]) >= 2 /\ type[b][Len(type[b])] = "close"
            /\ type[a] = T \o <<"open">>
    IN  OpenThenClose =>
            StackOf(hasInside, inside, T) = StackOf(last.prev.has, last.prev.inside, T)

\* C11: addType uses the key node.parent.type when node has a parent, else
\* node.type without a trailing '.open'; it creates state.inside and the key's
\* stack when absent, pushes node on top, leaves the other stacks alone and
\* returns the key's stack.
C11_AddType ==
    last.op = "addType" =>
        LET n == last.n
            ty == type[n]
            key == IF parent[n] # Null THEN type[parent[n]]
                   ELSE IF Len(ty) >= 2 /\ ty[Len(ty)] = "open"
                        THEN SubSeq(ty, 1, Len(ty) - 1) ELSE ty
        IN  /\ last.err = ""
            /\ hasInside
            /\ key \in DOMAIN inside
            /\ inside[key] = StackOf(hist.has, hist.inside, key) \o <<n>>
            /\ hist.stack = inside[key]
            /\ \A k \in (KeyUniverse \cup DOMAIN hist.inside) \ {key} :
                  StackOf(hasInside, inside, k) = StackOf(hist.has, hist.inside, k)
C11_Witness ==
    /\ last.op = "addType"
    /\ parent[last.n] = Null
    /\ type[last.n] = <<"brace", "open">>
    /\ Len(inside[<<"brace">>]) = 2
    /\ \E k \in DOMAIN inside : k # <<"brace">> /\ inside[k] # <<>>

\* C12: removeType raises when state.inside does not exist; when state.inside
\* exists but owns no stack for the node's key it returns null, raises nothing
\* and changes nothing.
C12_RemoveTypeErrors ==
    last.op = "removeType" =>
        /\ ~hist.has =>
              /\ last.err = "TypeError"
              /\ ~hasInside /\ inside = hist.inside
        /\ hist.has /\ removeTypeKey(Tree, last.n) \notin DOMAIN hist.inside =>
              /\ last.err = ""
              /\ last.ret = Null
              /\ hasInside /\ inside = hist.inside
C12_Witness ==
    /\ last.op = "removeType"
    /\ last.err = "TypeError"
    /\ ~hist.has

ParentHasType(n, ty) == parent[n] # Null /\ type[parent[n]] = ty
ActiveKeys == {k \in DOMAIN inside : hasInside /\ inside[k] # <<>>}
ArrayTypes == { <<"foo">>, <<"bar">>, <<"brace">>, <<"brace", "close">> }
StringPairs == {<<a, b>> : a \in ArrayTypes, b \in ArrayTypes} \cup {<<>>}
StringArray(tys) == ArrayMatcher([i \in 1..Len(tys) |-> StringMatcher(tys[i])])

Mutators == {"pushNode", "unshiftNode", "popNode", "shiftNode", "removeNode"}
\* C16: pushNode, unshiftNode, popNode, shiftNode and removeNode raise a
\* TypeError whenever one of their node arguments is not a node, and then no
\* node.nodes and no node.parent has changed.
C16_RejectNonNode ==
    (/\ last.op \in Mutators
     /\ \/ last.p = NotANode
        \/ last.op \in {"pushNode", "unshiftNode", "removeNode"} /\ last.n = NotANode)
        => /\ last.err = "TypeError"
           /\ nodes = trace.pre.nodes
           /\ parent = trace.pre.parent
C16_Witness ==
    /\ last.op = "removeNode"
    /\ last.err = "TypeError"
    /\ last.n = NotANode
    /\ last.p \in alloc
    /\ nodes[last.p] # NoNodes
    /\ \E n \in alloc : parent[n] # Null

\* The children of n, a node without an array of them having none.
Children(n) ==
    IF nodes[n] = NoNodes \/ nodes[n] = BadNodes THEN {}
    ELSE {nodes[n][i] : i \in 1..Len(nodes[n])}
RECURSIVE Closure(_, _)
Closure(S, k) ==
    IF k = 0 THEN S ELSE Closure(S \cup UNION {Children(n) : n \in S}, k - 1)
\* The nodes of the subtree rooted at root.
Subtree(root) == Closure({root}, NumNodes + NumFresh)
\* The positions n occupies below root.
Positions(root, n) ==
    {<<p, i>> \in Subtree(root) \X (1..(MaxSteps + 1)) :
        /\ nodes[p] # NoNodes /\ nodes[p] # BadNodes
        /\ i <= Len(nodes[p]) /\ nodes[p][i] = n}
\* What hangs below root is a tree: every node.nodes is an array or absent,
\* root occupies no position below itself and every other node exactly one.
IsTree(root) ==
    \A n \in Subtree(root) :
        /\ nodes[n] # BadNodes
        /\ Cardinality(Positions(root, n)) = IF n = root THEN 0 ELSE 1
RECURSIVE PreOrder(_)
RECURSIVE PreOrderAll(_, _)
\* A node, then its children in sequence order, each with its own subtree.
PreOrder(n) ==
    IF nodes[n] = NoNodes THEN <<n>> ELSE <<n>> \o PreOrderAll(nodes[n], 1)
PreOrderAll(arr, i) ==
    IF i > Len(arr) THEN <<>> ELSE PreOrder(arr[i]) \o PreOrderAll(arr, i + 1)
Times(log, n) == Cardinality({i \in 1..Len(log) : log[i] = n})
IsPrefix(a, b) == Len(a) <= Len(b) /\ SubSeq(b, 1, Len(a)) = a

\* C13: visit(root, fn) on a tree, with a visitor that changes nothing, invokes
\* fn exactly once on every node of the subtree rooted at root and on no other
\* node, a node before its children and the children in sequence order, and
\* returns root.
C13_VisitPreOrder ==
    (visit.api = "visit" /\ IsTree(visit.root)) =>
        /\ visit.status # "raised"
        /\ IsPrefix(visit.log, PreOrder(visit.root))
        /\ visit.status = "returned" =>
              /\ visit.ret = visit.root
              /\ visit.log = PreOrder(visit.root)
              /\ \A n \in NodeIds :
                    Times(visit.log, n) = IF n \in Subtree(visit.root) THEN 1 ELSE 0
C13_Witness ==
    /\ visit.api = "visit"
    /\ visit.status = "returned"
    /\ IsTree(visit.root)
    /\ nodes[visit.root] # NoNodes
    /\ Len(nodes[visit.root]) = 2
    /\ Len(visit.log) = 3

\* C14: mapVisit(node, fn) on a tree never invokes fn on node itself; it visits
\* each child in sequence order with visit and returns node, invokes fn zero
\* times when node.nodes is absent, and raises a TypeError when node.nodes is
\* present and not an array.
C14_MapVisit ==
    visit.api = "mapVisit" =>
        LET root == visit.root
        IN  /\ nodes[root] = BadNodes =>
                  visit.status = "raised" /\ visit.err = "TypeError" /\ visit.log = <<>>
            /\ nodes[root] = NoNodes =>
                  visit.status = "returned" /\ visit.ret = root /\ visit.log = <<>>
            /\ (nodes[root] # BadNodes /\ nodes[root] # NoNodes /\ IsTree(root)) =>
                  /\ visit.status # "raised"
                  /\ Times(visit.log, root) = 0
                  /\ IsPrefix(visit.log, PreOrderAll(nodes[root], 1))
                  /\ visit.status = "returned" =>
                        /\ visit.ret = root
                        /\ visit.log = PreOrderAll(nodes[root], 1)
C14_Witness ==
    /\ visit.api = "mapVisit"
    /\ visit.status = "returned"
    /\ IsTree(visit.root)
    /\ nodes[visit.root] # NoNodes
    /\ Len(nodes[visit.root]) = 2
    /\ visit.log = nodes[visit.root]

VisitAllOrNothing ==
    (visit.status = "raised" /\ visit.err = "TypeError") => visit.log = <<>>
\* C17, for the mutators: when pushNode or unshiftNode raises, no node.nodes
\* and no node.parent has changed.
InsertAllOrNothing ==
    \A p \in alloc, n \in alloc :
        /\ pushNode(Tree, p, n).err # "" => Links(pushNode(Tree, p, n).t) = Links(Tree)
        /\ unshiftNode(Tree, p, n).err # "" => Links(unshiftNode(Tree, p, n).t) = Links(Tree)
\* C17: every operation is all-or-nothing: whenever a call raises, the tree is
\* exactly as it was before the call and, for visit and mapVisit, the visitor
\* has not been invoked on any node, also when the node whose node.nodes is
\* not an array lies deeper in the tree.
C17_AllOrNothing == VisitAllOrNothing /\ InsertAllOrNothing

MethodOf(op) ==
    CASE op = "pushNode" -> "push"
      [] op = "unshiftNode" -> "unshift"
      [] op = "popNode" -> "pop"
      [] op = "shiftNode" -> "shift"
      [] op = "removeNode" -> "remove"
\* C18: when the parent (pushNode, unshiftNode, removeNode) or the node
\* (popNode, shiftNode) has the method push, unshift, remove, pop or shift, the
\* utility calls that method exactly once, returns its result and itself
\* writes no node.nodes and no node.parent: these are, when the method is
\* entered, as before the call, and after the call as the method left them.
C18_Delegates ==
    (last.op \in Mutators /\ last.p \in caps) =>
        /\ Len(trace.calls) = 1
        /\ LET c == trace.calls[1]
           IN  /\ c.m = MethodOf(last.op)
               /\ c.this = last.p
               /\ c.arg = last.n
               /\ c.before = trace.pre
               /\ c.after = Links(Tree)
               /\ last.ret = c.ret
               /\ last.err = ""
\* popNode on a decorated node with no children: the method's undefined is
\* the result, not the null of the utility's own branch
C18_Witness ==
    /\ last.op = "popNode"
    /\ last.p \in caps
    /\ trace.pre.nodes[last.p] = <<>>
    /\ last.ret = Void
    /\ \E n \in alloc : parent[n] = last.p

\* The filter a wrapper call works with, and whether it refuses the node as
\* the node was before the call.
FilterOf(tr) == IF tr.value \in FilterFns THEN tr.value ELSE tr.filter
Refuses(f, arr) == f = "fn:false" \/ (f = "fn:leaf" /\ arr # NoNodes)
Created == alloc \ trace.alloc

\* C21: addOpen and addClose, when a filter is given and returns false for
\* the node, create no node, return undefined and leave node.nodes as it
\* was, absent if it was absent.
C21_FilterSkips ==
    (/\ last.op \in {"addOpen", "addClose"}
     /\ Refuses(FilterOf(trace), trace.pre.nodes[last.p]))
        => /\ Created = {}
           /\ last.ret = Void
           /\ last.err = ""
           /\ nodes = trace.pre.nodes
           /\ parent = trace.pre.parent
C21_Witness ==
    /\ last.op = "addClose"
    /\ trace.filter = "fn:leaf"
    /\ trace.value = "{"
    /\ nodes[last.p] # NoNodes
    /\ last.ret = Void

\* C22: when no filter refuses the node, addOpen returns a new node of type
\* node.type + '.open' that is the first child of node, and addClose a new
\* node of type node.type + '.close' that is the last child; the new node has
\* node as its parent and carries the payload that was given, the children
\* there were keep their order, and node.nodes is created when absent.
C22_Sentinel ==
    (/\ last.op \in {"addOpen", "addClose"}
     /\ ~Refuses(FilterOf(trace), trace.pre.nodes[last.p]))
        => LET was == IF trace.pre.nodes[last.p] = NoNodes THEN <<>>
                      ELSE trace.pre.nodes[last.p]
               seg == IF last.op = "addOpen" THEN "open" ELSE "close"
           IN  /\ Created = {last.ret}
               /\ type[last.ret] = type[last.p] \o <<seg>>
               /\ parent[last.ret] = last.p
               /\ trace.value = "{" => value[last.ret] = "{"
               /\ nodes[last.p] = IF last.op = "addOpen" THEN <<last.ret>> \o was
                                  ELSE was \o <<last.ret>>
               /\ \A m \in NodeIds \ {last.p} : nodes[m] = trace.pre.nodes[m]
C22_Witness ==
    /\ last.op = "addClose"
    /\ trace.value = "{"
    /\ Len(nodes[last.p]) = 2
    /\ type[nodes[last.p][1]] = type[last.p] \o <<"open">>
    /\ nodes[last.p][2] = last.ret
    /\ value[last.ret] = "{"

\* C27: when no payload is given, the node addOpen or addClose creates and
\* both nodes wrapNodes creates carry the empty string as value, whether or
\* not a filter function is passed.
C27_EmptyPayload ==
    (/\ last.op \in {"addOpen", "addClose", "wrapNodes"}
     /\ trace.value # "{")
        => \A m \in Created : value[m] = ""

\* C28: wrapNodes either adds both the open and the close node or adds
\* neither, for every filter, also one whose result depends on the children
\* node has.
C28_WrapAtomic ==
    last.op = "wrapNodes" => Cardinality(Created) \in {0, 2}

\* The leaves below root: the nodes of its subtree without node.nodes.
Leaves(root) == {m \in Subtree(root) : nodes[m] = NoNodes}

\* C23: isEmpty(node), without a function, on a tree is true if and only if
\* every leaf of the subtree rooted at node, node itself when it is a leaf,
\* has a falsy value.
C23_IsEmpty ==
    (/\ last.op = "isEmpty"
     /\ trace.arg = Undefined
     /\ IsTree(last.p))
        => /\ last.err = ""
           /\ last.ret = (\A m \in Leaves(last.p) : value[m] \in {"", Undefined})
C23_Witness ==
    /\ last.op = "isEmpty"
    /\ trace.arg = Undefined
    /\ IsTree(last.p)
    /\ last.ret = FALSE
    /\ \E c \in Children(last.p) :
          /\ Children(c) # {}
          /\ \E m \in Children(c) : nodes[m] = NoNodes /\ value[m] = "foo"

\* C24: toNoop leaves an empty text node in both forms: after toNoop(node)
\* the node has type 'text', value '' and no node.nodes; after
\* toNoop(node, nodes) with an array it has type 'text', value '' and
\* node.nodes equal to the array.
C24_ToNoop ==
    (last.op = "toNoop" /\ last.err = "")
        => /\ type[last.p] = <<"text">>
           /\ value[last.p] = ""
           /\ nodes[last.p] = trace.arg

\* The keys whose stack, before the last tracker call, held n.
KeysHolding(n) ==
    {k \in DOMAIN hist.inside : hist.has /\ InArray(hist.inside[k], n)}

\* C25: removeType(state, node) takes the given node off the stack of its
\* key: whenever node is on that stack, after any sequence of addType calls,
\* the element removeType removes and returns is node itself.
C25_RemovesGivenNode ==
    (/\ last.op = "removeType"
     /\ last.err = ""
     /\ removeTypeKey(Tree, last.n) \in KeysHolding(last.n))
        => last.ret = last.n

\* C30: removeType(state, n) pops the stack addType(state, n) pushed n onto,
\* whatever tree calls came between the two: when n is on a stack, the key
\* removeType uses is the key of a stack that holds n.
C30_SameStack ==
    (/\ last.op = "removeType"
     /\ last.err = ""
     /\ KeysHolding(last.n) # {})
        => removeTypeKey(Tree, last.n) \in KeysHolding(last.n)

\* The parent of n matches the matcher m: a string it equals, an expression
\* that matches it, or an array with a member it matches.
ParentMatches(n, m) ==
    /\ parent[n] # Null
    /\ CASE m.kind = "string" -> type[parent[n]] = m.ty
         [] m.kind = "regexp" -> Test(m.re, type[parent[n]])
         [] m.kind = "array" ->
                \E i \in 1..Len(m.items) :
                    \/ m.items[i].kind = "string" /\ type[parent[n]] = m.items[i].ty
                    \/ m.items[i].kind = "regexp" /\ Test(m.items[i].re, type[parent[n]])
         [] OTHER -> FALSE
\* A string, an expression, and arrays of them.
ValidMatchers ==
    {StringMatcher(ty) : ty \in ArrayTypes}
    \cup {RegexpMatcher(re) : re \in Regexps}
    \cup {ArrayMatcher(<<StringMatcher(a), StringMatcher(b)>>) : a, b \in ArrayTypes}
    \cup {ArrayMatcher(<<StringMatcher(a), RegexpMatcher(re)>>) :
              a \in ArrayTypes, re \in Regexps}

\* C26: when the state has no inside mapping and the parent of node does not
\* match, isInside returns false and raises nothing, for a string, for an
\* expression and for an array.
C26_NoMapping ==
    ~hasInside =>
        \A n \in alloc : \A m \in ValidMatchers :
            ~ParentMatches(n, m) => isInside(State, Tree, n, m) = Returned(FALSE)

\* The positions n occupies in the whole forest.
AllPositions(n) ==
    {<<p, i>> \in alloc \X (1..(MaxSteps + 2)) :
        /\ nodes[p] # NoNodes /\ nodes[p] # BadNodes
        /\ i <= Len(nodes[p]) /\ nodes[p][i] = n}

\* C29: after any sequence of pushNode, unshiftNode, addOpen, addClose,
\* wrapNodes, popNode, shiftNode and removeNode calls, every node occupies at
\* most one position: it appears at most once in at most one node.nodes.
C29_OnePosition ==
    \A n \in alloc : Cardinality(AllPositions(n)) <= 1
====
